---------------------------- MODULE Spec2Model ----------------------------
(***************************************************************************)
(* forex_python/converter.py: the rate client (CurrencyRates) and the      *)
(* currency directory (CurrencyCodes).                                     *)
(*                                                                         *)
(* Python values are records [t, h, c, e]:                                 *)
(*   t = "None"                       None                                 *)
(*   t = "int"      value  h * 2^52 + c                                    *)
(*   t = "float"    value (h * 2^52 + c) * 2^e, an IEEE-754 double         *)
(*   t = "Decimal"  value (h * 2^52 + c) * 10^e, coefficient h * 2^52 + c  *)
(*                  and exponent e as decimal.Decimal keeps them           *)
(*   t = "dict"     [t, items], items a function from keys to values       *)
(* The limb h stands for a multiple of 2^52 that is never evaluated, so    *)
(* integers around 2^53, where int -> float conversion starts to round,    *)
(* fit the model's integers.  All numbers are non-negative, c < 2^31.      *)
(***************************************************************************)
EXTENDS Integers, Sequences, FiniteSets, TLC

VARIABLES
    force_decimal,      \* Common._force_decimal of the CurrencyRates instance
    call,               \* the last completed get_rates / get_rate / convert
    file,               \* raw_data/currencies.json: a sequence of records
    currency_data,      \* CurrencyCodes.__currency_data: NoTable or a table
    file_reads,         \* how many times the backing file was opened and read
    lookup,             \* the last completed directory lookup
    threads             \* per thread: its position in a directory lookup

vars == <<force_decimal, call, file, currency_data, file_reads, lookup, threads>>

---------------------------------------------------------------------------
(* Bounds of the model *)

\* Amount magnitudes: integers 0..MaxUnits and 2^53 + (0..MaxUnits),
\* float mantissas and Decimal coefficients 0..MaxUnits.
MaxUnits == 1
\* Longest backing file, in records.
MaxRecords == 2
\* Number of threads doing directory lookups concurrently.
NThreads == 2

---------------------------------------------------------------------------
(* Python numbers *)

PyNone == [t |-> "None", h |-> 0, c |-> 0, e |-> 0]
PyInt(h, c) == [t |-> "int", h |-> h, c |-> c, e |-> 0]
PyDecimal(h, c, e) == [t |-> "Decimal", h |-> h, c |-> c, e |-> e]
PyDict(items) == [t |-> "dict", items |-> items]

RECURSIVE Pow(_, _)
Pow(b, n) == IF n = 0 THEN 1 ELSE b * Pow(b, n - 1)

RECURSIVE Log2Floor(_)
Log2Floor(n) == IF n <= 1 THEN 0 ELSE 1 + Log2Floor(n \div 2)

\* A double with limb 0 is kept with an odd mantissa (zero as 0 * 2^0), so that
\* equal doubles are equal records.
RECURSIVE PyFloat(_, _, _)
PyFloat(h, m, x) ==
    IF h = 0 /\ m = 0 THEN [t |-> "float", h |-> 0, c |-> 0, e |-> 0]
    ELSE IF h = 0 /\ m % 2 = 0 THEN PyFloat(0, m \div 2, x + 1)
    ELSE [t |-> "float", h |-> h, c |-> m, e |-> x]

\* The double nearest to (h * 2^52 + m) * 2^x, ties to the even significand
\* (IEEE-754 round-half-even, 53 significant bits).  With h >= 2 the
\* significand has 53 + Log2Floor(h) bits and the low Log2Floor(h) bits of m
\* are rounded away; h * 2^52 / 2^k is even, so the kept significand's parity
\* is that of m \div 2^k.
RoundToDouble(h, m, x) ==
    LET k == Log2Floor(h)
        d == Pow(2, k)
        q == m \div d
        r == m % d
        up == \/ 2 * r > d
              \/ 2 * r = d /\ q % 2 = 1
    IN  PyFloat(h, (IF up THEN q + 1 ELSE q) * d, x)

\* float(n) for an int n
IntToFloat(n) == RoundToDouble(n.h, n.c, 0)

\* float(amount), converter.py line 151: reached with an int or a float only
Float(v) == IF v.t = "int" THEN IntToFloat(v) ELSE v

\* Decimal(amount), converter.py line 150.  Decimal(float) is the exact
\* expansion of the double, m * 2^-k = (m * 5^k) * 10^-k; Decimal(int) and
\* Decimal(Decimal) keep the value (the constructor ignores the context
\* precision).
Decimal(v) ==
    CASE v.t = "Decimal" -> v
      [] v.t = "int"     -> PyDecimal(v.h, v.c, 0)
      [] v.t = "float" /\ v.e >= 0 -> PyDecimal(v.h * Pow(2, v.e), v.c * Pow(2, v.e), 0)
      [] v.t = "float" /\ v.e < 0  -> PyDecimal(0, v.c * Pow(5, 0 - v.e), v.e)

\* isinstance(amount, Decimal), converter.py line 143
IsDecimal(v) == v.t = "Decimal"

\* Mutant of Falsy: only None counts as unavailable (if rate is None).
FalsyOnlyNone(v) == v.t = "None"

\* bool(v) is False: None and every zero (0, 0.0, Decimal('0.0'), ...)
Falsy(v) == v.t = "None" \/ (v.h = 0 /\ v.c = 0)

\* rate * amount, converter.py line 164.  A Decimal and a float do not
\* multiply (TypeError); a Decimal and an int give a Decimal; a float and an
\* int give a float (the int is converted first); two ints give an int.
\* Products are exact for int and Decimal (coefficients multiplied, exponents
\* added: the coefficients here stay far below the context's 28 digits) and
\* correctly rounded for float.  One operand at least has limb 0.
MulTypeError(a, b) ==
    \/ a.t = "Decimal" /\ b.t = "float"
    \/ a.t = "float" /\ b.t = "Decimal"

Mul(a, b) ==
    LET ph == a.h * b.c + b.h * a.c
        pc == a.c * b.c
    IN  CASE a.t = "int" /\ b.t = "int" -> PyInt(ph, pc)
          [] a.t = "Decimal" \/ b.t = "Decimal" -> PyDecimal(ph, pc, a.e + b.e)
          [] OTHER ->
               LET fa == Float(a)
                   fb == Float(b)
               IN  RoundToDouble(fa.h * fb.c + fb.h * fa.c, fa.c * fb.c, fa.e + fb.e)

---------------------------------------------------------------------------
(* The transport's answers: status code and JSON text *)

Codes == {"USD", "EUR"}

\* A JSON number as written: int = TRUE for a literal without fraction or
\* exponent (value c), otherwise the literal c * 10^e ("1.5" is 15 * 10^-1).
Lit(int, c, e) == [int |-> int, c |-> c, e |-> e]

\* 0, 2, 0.0, 1.5 and 1e-400.  The non-integer literals are exactly
\* representable in binary or underflow to zero, so the nearest double is
\* known exactly.
RateLiterals ==
    {Lit(TRUE, 0, 0), Lit(TRUE, 2, 0), Lit(FALSE, 0, -1), Lit(FALSE, 15, -1),
     Lit(FALSE, 1, -400)}

\* The JSON text of a body: whether it has a "rates" field, and that field.
Body(has_rates, rates) == [has_rates |-> has_rates, rates |-> rates]

NoRatesBody == Body(FALSE, <<>>)

Bodies ==
    {NoRatesBody, Body(TRUE, <<>>)}
    \cup {Body(TRUE, [k \in {code} |-> lit]) : code \in Codes, lit \in RateLiterals}
    \cup {Body(TRUE, [k \in Codes |-> IF k = "USD" THEN l1 ELSE l2]) :
              l1 \in {Lit(TRUE, 2, 0)}, l2 \in {Lit(TRUE, 2, 0), Lit(FALSE, 15, -1)}}

Response(status_code, text) == [status_code |-> status_code, text |-> text]

\* Every body under 200; an error page and a full body under the others.
Responses ==
    {Response(200, b) : b \in Bodies}
    \cup {Response(500, NoRatesBody),
          Response(204, Body(TRUE, [k \in Codes |-> Lit(FALSE, 15, -1)]))}

\* python's float("<literal>"): the nearest double.  Zero for a zero
\* coefficient and for a literal below the smallest subnormal's half
\* (c < 10^10 and e <= -334 give c * 10^e < 2^-1075); exact for an integer
\* value and for c / 10^k with 5^k dividing c, which is every other literal
\* of RateLiterals.
ParseFloat(lit) ==
    IF lit.c = 0 \/ lit.e <= -334 THEN PyFloat(0, 0, 0)
    ELSE IF lit.e >= 0 THEN PyFloat(0, lit.c * Pow(10, lit.e), 0)
    ELSE PyFloat(0, lit.c \div Pow(5, 0 - lit.e), lit.e)

\* A JSON number decoded by json.loads(text, use_decimal=True) (parse_float
\* is Decimal, integer literals stay int) or by response.json().
ParseNumber(lit, use_decimal) ==
    IF lit.int THEN PyInt(0, lit.c)
    ELSE IF use_decimal THEN PyDecimal(0, lit.c, lit.e)
    ELSE ParseFloat(lit)

\* Common._decode_rates: decoded_data.get('rates', {})
DecodeRates(fd, response, use_decimal) ==
    LET text == response.text
        dec == fd \/ use_decimal
    IN  IF text.has_rates
        THEN PyDict([k \in DOMAIN text.rates |-> ParseNumber(text.rates[k], dec)])
        ELSE PyDict(<<>>)

\* dict.get(key, None)
DictGet(d, key) == IF key \in DOMAIN d.items THEN d.items[key] ELSE PyNone

\* Common._get_decoded_rate
GetDecodedRate(fd, response, dest_cur, use_decimal) ==
    DictGet(DecodeRates(fd, response, use_decimal), dest_cur)

---------------------------------------------------------------------------
(* Request construction *)

NoDate == <<>>
Dates == {NoDate, <<2020, 1, 5>>}

Pad(n, width) ==
    IF width = 4 /\ n < 1000 THEN "0" \o (IF n < 100 THEN "0" ELSE "") \o
                                  (IF n < 10 THEN "0" ELSE "") \o ToString(n)
    ELSE IF width = 2 /\ n < 10 THEN "0" \o ToString(n)
    ELSE ToString(n)

\* Common._get_date_string: 'latest' or strftime('%Y-%m-%d')
GetDateString(date_obj) ==
    IF date_obj = NoDate THEN "latest"
    ELSE Pad(date_obj[1], 4) \o "-" \o Pad(date_obj[2], 2) \o "-" \o Pad(date_obj[3], 2)

SourceUrl == "https://theforexapi.com/api/"

\* safe_requests.get(source_url, params=payload, timeout=60); symbols = ""
\* stands for a payload without the 'symbols' key.
Request(date_obj, base_cur, symbols) ==
    [url |-> SourceUrl \o GetDateString(date_obj),
     params |-> [base |-> base_cur, symbols |-> symbols, rtype |-> "fpy"],
     timeout |-> 60]

---------------------------------------------------------------------------
(* CurrencyRates *)

Return(v) == [kind |-> "return", value |-> v]
Raise(exc) == [kind |-> "raise", exc |-> exc]

\* What one call did: the requests it issued, the answers it got, how it ended.
Done(requests, responses, outcome) ==
    [requests |-> requests, responses |-> responses, outcome |-> outcome]

\* Mutant of StatusOk: every 2xx status accepted (response.ok).
StatusOkAny2xx(response) == response.status_code >= 200 /\ response.status_code < 300

\* response.status_code == 200
StatusOk(response) == response.status_code = 200

\* base_cur == dest_cur
SameCurrency(base_cur, dest_cur) == base_cur = dest_cur

\* Mutant of Fetched: a failed call fetches a second time before it gives up.
FetchedWithRetry(request, response, outcome) ==
    IF outcome.kind = "raise"
    THEN Done(<<request, request>>, <<response, response>>, outcome)
    ELSE Done(<<request>>, <<response>>, outcome)

\* safe_requests.get(...): the transport answers the request with any of
\* Responses; the handler goes on with that answer.
Fetched(request, response, outcome) == Done(<<request>>, <<response>>, outcome)

\* CurrencyRates.get_rates, after the fetch
GetRatesOutcome(fd, response) ==
    IF StatusOk(response)
    THEN Return(DecodeRates(fd, response, FALSE))
    ELSE Raise("RatesNotAvailableError")

\* CurrencyRates.get_rates: every way the call can go
GetRatesCall(fd, base_cur, date_obj) ==
    {Fetched(Request(date_obj, base_cur, ""), response, GetRatesOutcome(fd, response)) :
        response \in Responses}

\* Mutant of IdentityRate: the flag is ignored.
IdentityRateFloat(fd) == PyFloat(0, 1, 0)

\* The identity of get_rate: Decimal(1) or 1.
IdentityRate(fd) == IF fd THEN PyDecimal(0, 1, 0) ELSE PyFloat(0, 1, 0)

\* CurrencyRates.get_rate, after the fetch
GetRateOutcome(fd, dest_cur, response) ==
    LET rate == GetDecodedRate(fd, response, dest_cur, FALSE)
    IN  IF StatusOk(response)
        THEN IF Falsy(rate) THEN Raise("RatesNotAvailableError") ELSE Return(rate)
        ELSE Raise("RatesNotAvailableError")

\* CurrencyRates.get_rate
GetRateCall(fd, base_cur, dest_cur, date_obj) ==
    IF SameCurrency(base_cur, dest_cur)
    THEN {Done(<<>>, <<>>, Return(IdentityRate(fd)))}
    ELSE {Fetched(Request(date_obj, base_cur, dest_cur), response,
                  GetRateOutcome(fd, dest_cur, response)) : response \in Responses}

\* use_decimal of convert, lines 143-146
UseDecimal(fd, amount) == IF IsDecimal(amount) THEN TRUE ELSE fd

\* Mutant of SameAmount: the amount is handed back as it came.
SameAmountUnconverted(use_decimal, amount) == amount

\* convert with base_cur == dest_cur, lines 148-151
SameAmount(use_decimal, amount) ==
    IF use_decimal THEN Decimal(amount) ELSE Float(amount)

\* rate * amount under try / except TypeError, lines 163-168
Multiply(rate, amount) ==
    IF MulTypeError(rate, amount)
    THEN Raise("DecimalFloatMismatchError")
    ELSE Return(Mul(rate, amount))

\* CurrencyRates.convert, after the fetch
ConvertOutcome(fd, dest_cur, amount, response) ==
    LET rate == GetDecodedRate(fd, response, dest_cur, UseDecimal(fd, amount))
    IN  IF StatusOk(response)
        THEN IF Falsy(rate) THEN Raise("RatesNotAvailableError")
             ELSE Multiply(rate, amount)
        ELSE Raise("RatesNotAvailableError")

\* CurrencyRates.convert
ConvertCall(fd, base_cur, dest_cur, amount, date_obj) ==
    IF SameCurrency(base_cur, dest_cur)
    THEN {Done(<<>>, <<>>, Return(SameAmount(UseDecimal(fd, amount), amount)))}
    ELSE {Fetched(Request(date_obj, base_cur, dest_cur), response,
                  ConvertOutcome(fd, dest_cur, amount, response)) : response \in Responses}

\* The amounts a caller passes to convert: ints 0..MaxUnits and
\* 2^53 + (0..MaxUnits), floats m and m / 2, Decimals c and c / 10.
IntAmounts == {PyInt(h, c) : h \in {0, 2}, c \in 0..MaxUnits}
FloatAmounts == {PyFloat(0, m, x) : m \in 0..MaxUnits, x \in {-1, 0}}
DecimalAmounts == {PyDecimal(0, c, e) : c \in 0..MaxUnits, e \in {-1, 0}}
Amounts == IntAmounts \cup FloatAmounts \cup DecimalAmounts

---------------------------------------------------------------------------
(* CurrencyCodes *)

PyStr(s) == [t |-> "str", s |-> s]
PyList(items) == [t |-> "list", items |-> items]

\* self.__currency_data = None
NoTable == [t |-> "None", items |-> <<>>]

\* A JSON object of raw_data/currencies.json as written: its "key": value
\* pairs in order.
Object(cc, symbol, name) == <<<<"cc", cc>>, <<"symbol", symbol>>, <<"name", name>>>>

\* Two records share the code USD, two share the symbol $.
Objects ==
    {Object("USD", "$", "US Dollar"),
     Object("USD", "US$", "United States Dollar"),
     Object("CAD", "$", "Canadian Dollar")}

\* The backing files: JSON arrays of at most MaxRecords objects.
Files == UNION {[1..n -> Objects] : n \in 0..MaxRecords}

LookupCodes == {"USD", "CAD", "ZZZ"}
LookupSymbols == {"$", "US$", "?"}

\* json.loads of one object: a dict, a later pair overriding an earlier one
\* with the same key.
RECURSIVE ObjectToDict(_)
ObjectToDict(pairs) ==
    IF pairs = <<>> THEN <<>>
    ELSE LET n == Len(pairs)
             rest == ObjectToDict(SubSeq(pairs, 1, n - 1))
         IN  [k \in DOMAIN rest \cup {pairs[n][1]} |->
                  IF k = pairs[n][1] THEN pairs[n][2] ELSE rest[k]]

\* json.loads(f.read()): the list of the file's objects, in order
JsonLoads(text) == PyList([i \in 1..Len(text) |-> ObjectToDict(text[i])])

\* Mutant of NotLoaded: an empty table counts as not loaded
\* (if not self.__currency_data).
NotLoadedFalsy(data) == data.t = "None" \/ data.items = <<>>

\* self.__currency_data is None
NotLoaded(data) == data.t = "None"

\* Mutant of FirstMatch: the last match wins.
RECURSIVE LastMatch(_, _, _, _)
LastMatch(table, field, key, i) ==
    IF i > Len(table.items) THEN 0
    ELSE LET later == LastMatch(table, field, key, i + 1)
         IN  IF later # 0 THEN later
             ELSE IF table.items[i][field] = key THEN i ELSE 0

\* next((item for item in table if item[field] == key), None): the index of
\* the first match from position i on, 0 when there is none
RECURSIVE FirstMatch(_, _, _, _)
FirstMatch(table, field, key, i) ==
    IF i > Len(table.items) THEN 0
    ELSE IF table.items[i][field] = key THEN i
    ELSE FirstMatch(table, field, key, i + 1)

\* The field each lookup matches on and the field it returns.
MatchField(op) == IF op = "get_currency_code_from_symbol" THEN "symbol" ELSE "cc"
ResultField(op) ==
    CASE op = "get_symbol" -> "symbol"
      [] op = "get_currency_name" -> "name"
      [] op = "get_currency_code_from_symbol" -> "cc"

\* get_symbol / get_currency_name / get_currency_code_from_symbol on the table
\* the property returned: currency_dict.get(field) if currency_dict else None
Scan(op, table, key) ==
    LET i == FirstMatch(table, MatchField(op), key, 1)
    IN  IF i = 0 THEN PyNone
        ELSE LET currency_dict == table.items[i]
             IN  IF ResultField(op) \in DOMAIN currency_dict
                 THEN PyStr(currency_dict[ResultField(op)])
                 ELSE PyNone

\* The property CurrencyCodes._currency_data, run without interruption: the
\* table it returns and the number of file reads it made.
CurrencyData(data, text) ==
    IF NotLoaded(data)
    THEN [data |-> JsonLoads(text), reads |-> 1]
    ELSE [data |-> data, reads |-> 0]

\* What one lookup did: its result and the file reads it made.
Looked(op, key, result, reads) ==
    [op |-> op, key |-> key, result |-> result, reads |-> reads]
NoLookup == Looked("", "", PyNone, 0)

\* One whole lookup of the single-threaded program.
Lookup(op, key) ==
    LET got == CurrencyData(currency_data, file)
    IN  /\ currency_data' = got.data
        /\ file_reads' = file_reads + got.reads
        /\ lookup' = Looked(op, key, Scan(op, got.data, key), got.reads)
        /\ UNCHANGED <<force_decimal, call, file, threads>>

get_symbol == \E currency_code \in LookupCodes : Lookup("get_symbol", currency_code)

get_currency_name ==
    \E currency_code \in LookupCodes : Lookup("get_currency_name", currency_code)

get_currency_code_from_symbol ==
    \E symbol \in LookupSymbols : Lookup("get_currency_code_from_symbol", symbol)

\* A thread's position in a lookup.  parsed is the list json.loads built and
\* the thread has not yet assigned; ref is the table the property returned;
\* reads counts the file reads of this lookup; result is what it returned.
Thread(pc, op, key, parsed, ref, reads, result) ==
    [pc |-> pc, op |-> op, key |-> key, parsed |-> parsed, ref |-> ref,
     reads |-> reads, result |-> result]

IdleThread == Thread("idle", "", "", NoTable, NoTable, 0, PyNone)

\* The lookups the threads make.
ThreadLookups == {<<"get_symbol", "USD">>, <<"get_currency_code_from_symbol", "$">>}

RatesUnchanged == UNCHANGED <<force_decimal, call>>

\* A thread enters a lookup.
T_Call(t) ==
    /\ threads[t].pc \in {"idle", "done"}
    /\ \E l \in ThreadLookups :
          threads' = [threads EXCEPT
                         ![t] = Thread("check", l[1], l[2], NoTable, NoTable, 0, PyNone)]
    /\ UNCHANGED <<file, currency_data, file_reads, lookup>>
    /\ RatesUnchanged

\* if self.__currency_data is None
T_Check(t) ==
    /\ threads[t].pc = "check"
    /\ threads' = [threads EXCEPT ![t].pc = IF NotLoaded(currency_data) THEN "load" ELSE "return"]
    /\ UNCHANGED <<file, currency_data, file_reads, lookup>>
    /\ RatesUnchanged

\* Mutant of T_Load: the list is published empty and filled in place.
T_LoadInPlace(t) ==
    /\ threads[t].pc = "load"
    /\ threads' = [threads EXCEPT ![t].pc = "store", ![t].parsed = JsonLoads(file),
                                  ![t].reads = 1]
    /\ currency_data' = PyList(<<>>)
    /\ file_reads' = file_reads + 1
    /\ UNCHANGED <<file, lookup>>
    /\ RatesUnchanged

\* open(...), f.read(), json.loads(...): the list is built in a temporary
T_Load(t) ==
    /\ threads[t].pc = "load"
    /\ threads' = [threads EXCEPT ![t].pc = "store", ![t].parsed = JsonLoads(file),
                                  ![t].reads = 1]
    /\ file_reads' = file_reads + 1
    /\ UNCHANGED <<file, currency_data, lookup>>
    /\ RatesUnchanged

\* self.__currency_data = <the list>
T_Store(t) ==
    /\ threads[t].pc = "store"
    /\ currency_data' = threads[t].parsed
    /\ threads' = [threads EXCEPT ![t].pc = "return"]
    /\ UNCHANGED <<file, file_reads, lookup>>
    /\ RatesUnchanged

\* return self.__currency_data
T_Return(t) ==
    /\ threads[t].pc = "return"
    /\ threads' = [threads EXCEPT ![t].pc = "scan", ![t].ref = currency_data]
    /\ UNCHANGED <<file, currency_data, file_reads, lookup>>
    /\ RatesUnchanged

\* the scan of the returned table and the lookup's return
T_Scan(t) ==
    /\ threads[t].pc = "scan"
    /\ threads' = [threads EXCEPT
                     ![t].pc = "done",
                     ![t].result = Scan(threads[t].op, threads[t].ref, threads[t].key)]
    /\ UNCHANGED <<file, currency_data, file_reads, lookup>>
    /\ RatesUnchanged

---------------------------------------------------------------------------
(* The specifications *)

Called(op, base_cur, dest_cur, amount, date_obj, done) ==
    [op |-> op, base_cur |-> base_cur, dest_cur |-> dest_cur, amount |-> amount,
     date_obj |-> date_obj, requests |-> done.requests,
     responses |-> done.responses, outcome |-> done.outcome]

NoCall == Called("", "", "", PyNone, NoDate, Done(<<>>, <<>>, Return(PyNone)))

DirectoryUnchanged == UNCHANGED <<file, currency_data, file_reads, lookup, threads>>

get_rates ==
    \E base_cur \in Codes, date_obj \in Dates :
      \E done \in GetRatesCall(force_decimal, base_cur, date_obj) :
        /\ call' = Called("get_rates", base_cur, "", PyNone, date_obj, done)
        /\ UNCHANGED force_decimal
        /\ DirectoryUnchanged

get_rate ==
    \E base_cur \in Codes, dest_cur \in Codes, date_obj \in Dates :
      \E done \in GetRateCall(force_decimal, base_cur, dest_cur, date_obj) :
        /\ call' = Called("get_rate", base_cur, dest_cur, PyNone, date_obj, done)
        /\ UNCHANGED force_decimal
        /\ DirectoryUnchanged

convert ==
    \E base_cur \in Codes, dest_cur \in Codes, amount \in Amounts, date_obj \in Dates :
      \E done \in ConvertCall(force_decimal, base_cur, dest_cur, amount, date_obj) :
        /\ call' = Called("convert", base_cur, dest_cur, amount, date_obj, done)
        /\ UNCHANGED force_decimal
        /\ DirectoryUnchanged

\* CurrencyRates(force_decimal=...): Common.__init__
InitRates ==
    /\ force_decimal \in BOOLEAN
    /\ call = NoCall
    /\ file = <<>>
    /\ currency_data = NoTable
    /\ file_reads = 0
    /\ lookup = NoLookup
    /\ threads = [t \in 1..NThreads |-> IdleThread]

NextRates == get_rates \/ get_rate \/ convert

RatesSpec == InitRates /\ [][NextRates]_vars

\* CurrencyCodes(): the table is None, the bundled file is any of Files
InitDirectory ==
    /\ force_decimal = FALSE
    /\ call = NoCall
    /\ file \in Files
    /\ currency_data = NoTable
    /\ file_reads = 0
    /\ lookup = NoLookup
    /\ threads = [t \in 1..NThreads |-> IdleThread]

\* The single-threaded program's use of the directory.
NextDirectory == get_symbol \/ get_currency_name \/ get_currency_code_from_symbol

DirectorySpec == InitDirectory /\ [][NextDirectory]_vars

\* Threads sharing the module's CurrencyCodes instance, interleaved at the
\* steps of the property and of the scan.
NextThreads ==
    \E t \in 1..NThreads :
        \/ T_Call(t)
        \/ T_Check(t)
        \/ T_Load(t)
        \/ T_Store(t)
        \/ T_Return(t)
        \/ T_Scan(t)

ThreadsSpec == InitDirectory /\ [][NextThreads]_vars

---------------------------------------------------------------------------
(* Claims about CurrencyRates, checked under RatesSpec *)

Fetched1 == Len(call.requests) = 1
Answer == call.responses[1]
Differ == call.base_cur # call.dest_cur
IsZero(v) == v.h = 0 /\ v.c = 0

\* C1: whenever the transport answers a call's fetch with a status other
\* than 200, get_rates, get_rate and convert fail with RatesNotAvailableError
\* and return no value.
C1_NonOkStatusRaises ==
    (call.op \in {"get_rates", "get_rate", "convert"} /\ call.responses # <<>>
        /\ Answer.status_code # 200)
    => call.outcome = Raise("RatesNotAvailableError")

\* convert with the forced-decimal flag, answered 204 with a body full of rates
C1_Witness ==
    /\ call.op = "convert" /\ force_decimal /\ call.responses # <<>>
    /\ Answer.status_code = 204 /\ Answer.text.has_rates
    /\ call.outcome = Raise("RatesNotAvailableError")

\* C2: get_rate(c, c, date) returns Decimal(1) with the forced-decimal flag
\* and the float 1.0 without it, and issues no network call.
C2_SameCurrencyRateIsOne ==
    (call.op = "get_rate" /\ ~Differ)
    => /\ call.requests = <<>>
       /\ call.responses = <<>>
       /\ call.outcome =
            Return(IF force_decimal
                   THEN [t |-> "Decimal", h |-> 0, c |-> 1, e |-> 0]
                   ELSE [t |-> "float", h |-> 0, c |-> 1, e |-> 0])

C2_Witness ==
    /\ call.op = "get_rate" /\ ~Differ /\ force_decimal /\ call.date_obj # NoDate
    /\ call.outcome.kind = "return" /\ call.outcome.value.t = "Decimal"

\* A number as limb and fraction: h * 2^52 + n / d.  For a value with a
\* non-zero limb the exponent is not negative.
Num(v) ==
    LET b == IF v.t = "float" THEN 2 ELSE 10
    IN  IF v.e >= 0
        THEN [h |-> v.h * Pow(b, v.e), n |-> v.c * Pow(b, v.e), d |-> 1]
        ELSE [h |-> v.h, n |-> v.c, d |-> Pow(b, 0 - v.e)]

\* a == b in python, across int, float and Decimal
NumEq(a, b) == Num(a).h = Num(b).h /\ Num(a).n * Num(b).d = Num(b).n * Num(a).d

DecimalMode == call.amount.t = "Decimal" \/ force_decimal
SameConvert == call.op = "convert" /\ ~Differ

AboveTwoTo53 == call.amount.t = "int" /\ call.amount.h = 2 /\ call.amount.c > 0

ConvertRate ==
    GetDecodedRate(force_decimal, Answer, call.dest_cur, UseDecimal(force_decimal, call.amount))

\* C4: in convert with base != dest and a 200 answer with a non-zero rate, a
\* Decimal rate (decoded because the forced-decimal flag is set) against any
\* non-Decimal amount, float or int, fails with DecimalFloatMismatchError.
C4_DecimalRateAgainstOtherAmountRaises ==
    (call.op = "convert" /\ Differ /\ Answer.status_code = 200 /\ force_decimal
        /\ ConvertRate.t = "Decimal" /\ ~IsZero(ConvertRate)
        /\ call.amount.t # "Decimal")
    => call.outcome = Raise("DecimalFloatMismatchError")

\* The payload's rate for dest_cur, as the call decoded it.
HasRate == Answer.text.has_rates /\ call.dest_cur \in DOMAIN Answer.text.rates
PayloadRate ==
    ParseNumber(Answer.text.rates[call.dest_cur],
                force_decimal \/ (call.op = "convert" /\ call.amount.t = "Decimal"))

\* C5: for base != dest and a 200 answer, get_rate and convert fail with
\* RatesNotAvailableError exactly when the payload has no rate for dest (an
\* empty or a missing "rates" field included) or the decoded rate is zero;
\* otherwise get_rate returns the decoded rate and convert goes on to
\* rate * amount.
C5_UnavailableIffAbsentOrZero ==
    (call.op \in {"get_rate", "convert"} /\ Differ /\ Answer.status_code = 200)
    => /\ call.outcome = Raise("RatesNotAvailableError")
            <=> (~HasRate \/ IsZero(PayloadRate))
       /\ (HasRate /\ ~IsZero(PayloadRate))
            => IF call.op = "get_rate"
               THEN call.outcome = Return(PayloadRate)
               ELSE \/ call.outcome = Raise("DecimalFloatMismatchError")
                    \/ call.outcome = Return(Mul(PayloadRate, call.amount))

\* get_rate answered 200 with 1e-400 for dest: the float decoded is 0.0
C5_Witness ==
    /\ call.op = "get_rate" /\ Differ /\ ~force_decimal
    /\ call.responses # <<>> /\ Answer.status_code = 200 /\ HasRate
    /\ Answer.text.rates[call.dest_cur].e = -400
    /\ call.outcome = Raise("RatesNotAvailableError")

\* C8: every call issues at most one fetch: exactly one for get_rates and for
\* get_rate and convert with base != dest, none otherwise, whatever the
\* answer and however the call ends.
C8_AtMostOneFetch ==
    call.op # ""
    => /\ Len(call.requests) <= 1
       /\ Len(call.responses) = Len(call.requests)
       /\ Fetched1 <=> (call.op = "get_rates" \/ Differ)

\* convert answered 200 with a zero rate: one fetch, then the failure
C8_Witness ==
    /\ call.op = "convert" /\ Differ /\ Fetched1
    /\ Answer.status_code = 200 /\ HasRate
    /\ call.outcome = Raise("RatesNotAvailableError")

\* C9: with the forced-decimal flag every call that succeeds returns
\* Decimals: get_rates a mapping of Decimals, get_rate and convert a Decimal;
\* without the flag convert decodes in decimal mode exactly when the amount
\* is a Decimal, and get_rates and get_rate decode floats.
C9_ForcedDecimalReturnsDecimals ==
    (call.op # "" /\ call.outcome.kind = "return")
    => /\ force_decimal
            => IF call.op = "get_rates"
               THEN \A k \in DOMAIN call.outcome.value.items :
                        call.outcome.value.items[k].t = "Decimal"
               ELSE call.outcome.value.t = "Decimal"
       /\ (~force_decimal /\ Fetched1 /\ HasRate /\ ~Answer.text.rates[call.dest_cur].int)
            => PayloadRate.t = (IF call.op = "convert" /\ call.amount.t = "Decimal"
                                THEN "Decimal" ELSE "float")

---------------------------------------------------------------------------
(* Claims about CurrencyCodes *)

Table == currency_data.items

Matches(field) == {i \in 1..Len(Table) : Table[i][field] = lookup.key}

\* The lookup returned the field of the first record, in table order, whose
\* matched field equals the key, or None when no record matches.
ReturnedFirst(match, field) ==
    IF Matches(match) = {}
    THEN lookup.result = PyNone
    ELSE \E i \in Matches(match) :
            /\ \A j \in Matches(match) : i <= j
            /\ lookup.result = [t |-> "str", s |-> Table[i][field]]

\* C6: over any sequence of lookups the backing file is read at most once:
\* the first lookup reads it, no later one does.  Checked under DirectorySpec.
C6_FileReadAtMostOnce ==
    /\ file_reads <= 1
    /\ lookup.op # "" => (file_reads = 1 /\ currency_data.t = "list")

\* a later lookup, on an empty table, that read nothing
C6_Witness ==
    /\ lookup.op # "" /\ lookup.reads = 0 /\ file_reads = 1 /\ file = <<>>

\* C7: get_symbol(code) and get_currency_name(code) return the symbol and
\* the name of the first record whose code is the key,
\* get_currency_code_from_symbol(symbol) the code of the first record whose
\* symbol is the key; without a match each returns None.  Checked under
\* DirectorySpec.
C7_FirstMatchOrNone ==
    /\ lookup.op = "get_symbol" => ReturnedFirst("cc", "symbol")
    /\ lookup.op = "get_currency_name" => ReturnedFirst("cc", "name")
    /\ lookup.op = "get_currency_code_from_symbol" => ReturnedFirst("symbol", "cc")

\* get_symbol('USD') on a table whose two records are both USD, the second
\* with another symbol
C7_Witness ==
    /\ lookup.op = "get_symbol" /\ lookup.key = "USD" /\ Len(Table) = 2
    /\ Table[1].cc = "USD" /\ Table[2].cc = "USD" /\ Table[1].symbol # Table[2].symbol
    /\ lookup.result = [t |-> "str", s |-> Table[1].symbol]

\* The table holds the file's records, all of them, in order, each with the
\* file's keys and values.
FullContents(table) ==
    /\ table.t = "list"
    /\ Len(table.items) = Len(file)
    /\ \A i \in 1..Len(file) :
          /\ DOMAIN table.items[i] = {file[i][p][1] : p \in 1..Len(file[i])}
          /\ \A p \in 1..Len(file[i]) : table.items[i][file[i][p][1]] = file[i][p][2]

\* C10: when threads make their first lookups concurrently, under every
\* interleaving a lookup sees no table (and loads one) or a complete table,
\* never a partial one, and once all lookups have finished the cached table
\* is the full contents of the backing file.  Checked under ThreadsSpec.
C10_NoPartialTable ==
    /\ currency_data.t = "None" \/ FullContents(currency_data)
    /\ \A t \in 1..NThreads :
          /\ threads[t].pc = "store" => FullContents(threads[t].parsed)
          /\ threads[t].pc = "scan" => FullContents(threads[t].ref)
    /\ ((\A t \in 1..NThreads : threads[t].pc \in {"idle", "done"})
          /\ (\E t \in 1..NThreads : threads[t].pc = "done"))
       => FullContents(currency_data)

\* two threads both found no table, both read the file, both have finished
C10_Witness ==
    /\ file_reads = 2 /\ Len(file) = 2
    /\ threads[1].pc = "done" /\ threads[2].pc = "done"
    /\ threads[1].reads = 1 /\ threads[2].reads = 1
    /\ FullContents(currency_data)

===========================================================================
